---- MODULE Spec2Model ----
(***************************************************************************)
(* A model of gemma/lora.py: the LinearWithLoRA layer (forward, merge_lora, *)
(* enable_dora) and the module-tree rewrite switch_to_lora.                 *)
(*                                                                         *)
(* Numbers.  Tensor entries are integers.  The only irrational values the  *)
(* code produces are the row norms of _apply_dora, so a tensor row is kept *)
(* exactly as a record [v, num, den] that stands for the real vector       *)
(*      sqrt(num / den) * v                                                *)
(* with v an integer vector.  An exact integer row has num = den = 1, and  *)
(* den = 0 is the NaN row that 0 / 0 produces.  The field m holds the      *)
(* SQUARES of the row norms (integers).  lora_scaler is the rational p / q.*)
(* An attribute that does not exist on the object is the empty tuple.      *)
(* Tensor dtypes (int8 storage of quantized tensors) are not modelled: a   *)
(* quantized tensor is an integer matrix with its scaler beside it.        *)
(***************************************************************************)
EXTENDS Integers, Sequences, FiniteSets, TLC

\* ------------------------------------------------------------------ bounds
\* Operations (forward, enable_dora, merge_lora, optimizer updates) made on one
\* layer in a run.
MaxCalls == 3
\* Passes of switch_to_lora over one host model in a run.
MaxPasses == 2

\* The values of tensor entries.
Vals == {0 - 1, 0, 1}
\* Weight scalers of a quantized base weight (1 is the scaler that changes
\* nothing) and the scalers of quantized adapter factors.
ScalerVals == {1, 2}
AdapterScalerVals == {2}
\* The configured lora_scaler values a layer is constructed with.
ScaleArgs == {1, 2}
\* (in_features, out_features, lora_rank) of the layers of the layer runs.
Shapes == { <<2, 1, 1>>, <<1, 2, 1>>, <<1, 1, 2>> }

\* ----------------------------------------------------------- tensor algebra
None == << >>

Vectors(n) == [1..n -> Vals]

RECURSIVE DotTo(_, _, _)
DotTo(u, v, n) == IF n = 0 THEN 0 ELSE DotTo(u, v, n - 1) + u[n] * v[n]

Dot(u, v) == DotTo(u, v, Len(u))

Norm2(v) == Dot(v, v)

Exact(v) == [v |-> v, num |-> 1, den |-> 1]

IsExact(row) == row.num = 1 /\ row.den = 1

IsNaN(row) == row.den = 0

NaNRow(v) == [v |-> [j \in DOMAIN v |-> 0], num |-> 0, den |-> 0]

\* The squared norm of row equals the integer n2.
RowNorm2Is(row, n2) == ~IsNaN(row) /\ row.num * Norm2(row.v) = n2 * row.den

Sgn(k) == IF k > 0 THEN 1 ELSE IF k < 0 THEN 0 - 1 ELSE 0

\* Two scalars sqrt(num/den) * v are the same real number.
SameScalar(a, b) ==
    /\ ~IsNaN(a) /\ ~IsNaN(b)
    /\ Sgn(a.v * a.num) = Sgn(b.v * b.num)
    /\ a.num * a.v * a.v * b.den = b.num * b.v * b.v * a.den

\* Two outputs agree entry by entry (NaN agreeing with NaN).
SameOut(o1, o2) ==
    /\ Len(o1) = Len(o2)
    /\ \A i \in 1..Len(o1) :
          \/ IsNaN(o1[i]) /\ IsNaN(o2[i])
          \/ SameScalar(o1[i], o2[i])

\* row * k, for an integer k.
ScaleRow(row, k) ==
    IF IsNaN(row) THEN row
    ELSE [v |-> [j \in DOMAIN row.v |-> k * row.v[j]], num |-> row.num, den |-> row.den]

\* torch.matmul(b, a) of two exact matrices: [out, rank] @ [rank, in].
MatMul(b, a) ==
    [i \in 1..Len(b) |->
        Exact([j \in 1..Len(a[1].v) |->
                 DotTo(b[i].v, [k \in 1..Len(a) |-> a[k].v[j]], Len(a))])]

\* row + lrow of two exact rows (tensor + tensor).
AddRow(row, lrow) == Exact([j \in DOMAIN row.v |-> row.v[j] + lrow.v[j]])

\* row + (p/q) * lrow of two exact rows: sqrt(1 / q^2) * (q*row + p*lrow).
AddScaledRow(row, p, q, lrow) ==
    [v |-> [j \in DOMAIN row.v |-> q * row.v[j] + p * lrow.v[j]],
     num |-> 1, den |-> q * q]

\* row / row.norm(p=2): 0 / 0 is NaN.
DivByNorm(row) ==
    IF IsNaN(row) \/ row.num = 0 \/ Norm2(row.v) = 0 THEN NaNRow(row.v)
    ELSE [v |-> row.v, num |-> 1, den |-> Norm2(row.v)]

\* m * row, where m2 is the square of m.
MulMagnitude(m2, row) ==
    IF IsNaN(row) THEN row
    ELSE [v |-> row.v, num |-> m2 * row.num, den |-> row.den]

\* tensor.norm(p=2, dim=1, keepdim=True) of an exact matrix, squared.
RowNorms2(w) == [i \in 1..Len(w) |-> Norm2(w[i].v)]

\* F.linear(x, weight): one output per row of weight.
Linear_F(x, weight) ==
    [i \in 1..Len(weight) |->
        IF IsNaN(weight[i]) THEN [v |-> 0, num |-> 0, den |-> 0]
        ELSE [v |-> Dot(x, weight[i].v), num |-> weight[i].num, den |-> weight[i].den]]

Matrices(rows, cols) == [1..rows -> {Exact(v) : v \in Vectors(cols)}]

ZeroMatrix(rows, cols) == [i \in 1..rows |-> Exact([j \in 1..cols |-> 0])]

\* ------------------------------------------------------------ the base layer
\* gemma.model.Linear.__init__: the frozen weight (uninitialized storage) and,
\* when quantized, its weight scaler.
Linear_init(in_features, out_features, quant, uninitWeight, uninitScaler) ==
    [cls            |-> "Linear",
     in_features    |-> in_features,
     out_features   |-> out_features,
     quant          |-> quant,
     weight         |-> uninitWeight,
     weight_scaler  |-> IF quant THEN uninitScaler ELSE None]

\* --------------------------------------------------------- LinearWithLoRA
\* LinearWithLoRA.__init__
LinearWithLoRA_init(in_features, out_features, lora_rank, lora_scaler, use_dora, quant, uninitWeight, uninitScaler, normalA, uninitAS, uninitBS) ==
    LET base == Linear_init(in_features, out_features, quant, uninitWeight, uninitScaler)
    IN [cls             |-> "LinearWithLoRA",
        in_features     |-> in_features,
        out_features    |-> out_features,
        quant           |-> quant,
        weight          |-> base.weight,
        weight_scaler   |-> base.weight_scaler,
        lora_rank       |-> lora_rank,
        lora_scaler     |-> [p |-> lora_scaler, q |-> lora_rank],
        weight_a        |-> normalA,
        weight_b        |-> ZeroMatrix(out_features, lora_rank),
        weight_a_scaler |-> IF quant THEN uninitAS ELSE None,
        weight_b_scaler |-> IF quant THEN uninitBS ELSE None,
        m               |-> RowNorms2(base.weight),
        dora            |-> use_dora]

hasattr(attr) == attr # None

weight_quantizer(self) == self.weight_scaler

weight_a_quantizer(self) == self.weight_a_scaler

weight_b_quantizer(self) == self.weight_b_scaler

\* _quantize_weight returns a new tensor exactly when it rescales.
QuantizeRescales(self, quantizer) == self.quant /\ quantizer # None

\* LinearWithLoRA._quantize_weight
QuantizeWeight(self, weight, quantizer) ==
    IF QuantizeRescales(self, quantizer)
    THEN [i \in 1..Len(weight) |-> ScaleRow(weight[i], quantizer[i])]
    ELSE weight

\* The numerator of _apply_dora, line 81.
DoraNumerator(self, row, lrow) ==
    AddScaledRow(row, self.lora_scaler.p, self.lora_scaler.q, lrow)

\* _apply_dora returning the directional component without rescaling it by m.
ApplyDora_noMagnitude(self, weight, lora_weight) ==
    [i \in 1..Len(weight) |->
        DivByNorm(DoraNumerator(self, weight[i], lora_weight[i]))]

\* LinearWithLoRA._apply_dora
ApplyDora(self, weight, lora_weight) ==
    [i \in 1..Len(weight) |->
        MulMagnitude(self.m[i], DivByNorm(DoraNumerator(self, weight[i], lora_weight[i])))]

\* lines 61-63 and 103-105: the product of the two effective factors.
LoraWeight(self) ==
    MatMul(QuantizeWeight(self, self.weight_b, weight_b_quantizer(self)),
           QuantizeWeight(self, self.weight_a, weight_a_quantizer(self)))

\* weight += lora_weight
AddInPlace(weight, lora_weight) ==
    [i \in 1..Len(weight) |-> AddRow(weight[i], lora_weight[i])]

\* forward applying lora_scaler in the additive branch too.
ForwardWeight_scaled(self) ==
    LET weight == QuantizeWeight(self, self.weight, weight_quantizer(self))
    IN IF hasattr(self.weight_a) /\ hasattr(self.weight_b)
       THEN IF self.dora
            THEN ApplyDora(self, weight, LoraWeight(self))
            ELSE [i \in 1..Len(weight) |->
                    AddScaledRow(weight[i], self.lora_scaler.p, self.lora_scaler.q,
                                 LoraWeight(self)[i])]
       ELSE weight

\* The weight forward hands to F.linear, lines 56-69.
ForwardWeight(self) ==
    LET weight == QuantizeWeight(self, self.weight, weight_quantizer(self))
    IN IF hasattr(self.weight_a) /\ hasattr(self.weight_b)
       THEN IF self.dora
            THEN ApplyDora(self, weight, LoraWeight(self))
            ELSE AddInPlace(weight, LoraWeight(self))
       ELSE weight

\* What forward leaves in self.weight: 'weight += lora_weight' (line 69) acts on
\* self.weight itself when _quantize_weight returned its argument.
ForwardStoredWeight(self) ==
    IF /\ hasattr(self.weight_a) /\ hasattr(self.weight_b)
       /\ ~self.dora
       /\ ~QuantizeRescales(self, weight_quantizer(self))
    THEN AddInPlace(self.weight, LoraWeight(self))
    ELSE self.weight

\* LinearWithLoRA.forward: the layer afterwards and the value returned.
Forward(self, x) ==
    [self |-> [self EXCEPT !.weight = ForwardStoredWeight(self)],
     out  |-> Linear_F(x, ForwardWeight(self))]

\* The weight merge_lora stores, lines 107-110.
MergedWeight(self) ==
    IF self.dora
    THEN ApplyDora(self, self.weight, LoraWeight(self))
    ELSE AddInPlace(self.weight, LoraWeight(self))

\* LinearWithLoRA.merge_lora: the layer afterwards and whether the call raised.
\* Reading a missing weight_a raises before anything changed; a missing
\* weight_a_scaler makes delattr raise after the factors were deleted.
MergeLora(self) ==
    IF ~(self.lora_rank > 0) THEN [self |-> self, raised |-> FALSE]
    ELSE IF ~(hasattr(self.weight_a) /\ hasattr(self.weight_b))
    THEN [self |-> self, raised |-> TRUE]
    ELSE LET folded == [self EXCEPT !.weight = MergedWeight(self),
                                    !.weight_a = None,
                                    !.weight_b = None]
         IN IF ~hasattr(self.weight_a_scaler)
            THEN [self |-> folded, raised |-> TRUE]
            ELSE IF ~hasattr(self.weight_b_scaler)
            THEN [self |-> [folded EXCEPT !.weight_a_scaler = None], raised |-> TRUE]
            ELSE [self |-> [folded EXCEPT !.weight_a_scaler = None,
                                          !.weight_b_scaler = None,
                                          !.lora_rank = 0],
                  raised |-> FALSE]

\* LinearWithLoRA.enable_dora
EnableDora(self) == [self EXCEPT !.dora = TRUE]

\* ------------------------------------------------------------------- state
VARIABLES
    layer,     \* the LinearWithLoRA object of a layer run
    ret,       \* the last call made on it: [op, out, raised]
    calls,     \* how many operations were made on it
    heap,      \* a host model: object id -> module
    last,      \* the last switch_to_lora pass: its replace_names, whether it raised
    passes     \* how many passes were made

vars == <<layer, ret, calls, heap, last, passes>>

layerVars == <<layer, ret, calls>>

graphVars == <<heap, last, passes>>

\* The input forward is called with: the identity batch.  F.linear is linear in
\* x, so the output on the identity batch (the effective weight, transposed)
\* decides the output on every x.
Batch(n) == [b \in 1..n |-> [j \in 1..n |-> IF j = b THEN 1 ELSE 0]]

\* forward(x) on a batch x: the value returned, input row by input row.
ForwardBatch(self, x) == [b \in 1..Len(x) |-> Forward(self, x[b]).out]

Returned(op, out, raised) == [op |-> op, out |-> out, raised |-> raised]

\* A layer constructed directly: every storage the constructor leaves
\* uninitialized, and the normal draw of weight_a, is any value.
LayerInit ==
    /\ \E shape \in Shapes, lora_scaler \in ScaleArgs, use_dora \in BOOLEAN, quant \in BOOLEAN :
         \E w \in Matrices(shape[2], shape[1]), a \in Matrices(shape[3], shape[1]),
            ws \in [1..shape[2] -> ScalerVals], as \in [1..shape[3] -> AdapterScalerVals],
            bs \in [1..shape[2] -> AdapterScalerVals] :
            layer = LinearWithLoRA_init(shape[1], shape[2], shape[3], lora_scaler,
                                        use_dora, quant, w, ws, a, as, bs)
    /\ ret = Returned("__init__", None, FALSE)
    /\ calls = 0

NoGraph ==
    /\ heap = << >>
    /\ last = << >>
    /\ passes = 0

Init == LayerInit /\ NoGraph

\* y = layer(x)
CallForward ==
    /\ calls < MaxCalls
    /\ layer' = Forward(layer, Batch(layer.in_features)[1]).self
    /\ ret' = Returned("forward", ForwardBatch(layer, Batch(layer.in_features)), FALSE)
    /\ calls' = calls + 1
    /\ UNCHANGED graphVars

\* layer.enable_dora()
CallEnableDora ==
    /\ calls < MaxCalls
    /\ layer' = EnableDora(layer)
    /\ ret' = Returned("enable_dora", None, FALSE)
    /\ calls' = calls + 1
    /\ UNCHANGED graphVars

\* layer.merge_lora()
CallMergeLora ==
    /\ calls < MaxCalls
    /\ layer' = MergeLora(layer).self
    /\ ret' = Returned("merge_lora", None, MergeLora(layer).raised)
    /\ calls' = calls + 1
    /\ UNCHANGED graphVars

\* An optimizer update of weight_b, a trainable parameter of the layer
\* (weight_a, the other one, already holds any value from its random draw).
Train ==
    /\ calls < MaxCalls
    /\ hasattr(layer.weight_a) /\ hasattr(layer.weight_b)
    /\ \E b \in Matrices(layer.out_features, layer.lora_rank) :
         layer' = [layer EXCEPT !.weight_b = b]
    /\ ret' = Returned("train", None, FALSE)
    /\ calls' = calls + 1
    /\ UNCHANGED graphVars

Next == CallForward \/ CallEnableDora \/ CallMergeLora \/ Train

Spec == Init /\ [][Next]_vars

\* ------------------------------------------------------- the module tree
\* A host model is a heap of objects.  A container is [cls |-> "Module",
\* modules |-> <<...>>], its _modules an ordered list of <<key, object id>>; a
\* leaf is a Linear or a LinearWithLoRA object.  Names are tuples of characters.
RootId == 1

qkv_proj == <<"q", "k", "v", "_", "p", "r", "o", "j">>
o_proj == <<"o", "_", "p", "r", "o", "j">>
attn == <<"a", "t", "t", "n">>

Container(modules) == [cls |-> "Module", modules |-> modules]

Modules(obj) == IF obj.cls = "Module" THEN obj.modules ELSE << >>

\* isinstance(module, Linear): LinearWithLoRA is a subclass of Linear (line 11).
IsInstanceOfLinear(obj) == obj.cls \in {"Linear", "LinearWithLoRA"}

\* Python's  sub in name  on strings.
IsSubstring(sub, name) ==
    \E k \in 0..(Len(name) - Len(sub)) : SubSeq(name, k + 1, k + Len(sub)) = sub

\* nn.Module.named_modules: pre-order, a child's name being its parent's name, a
\* dot, and its key (no dot under the root, whose name is empty).
RECURSIVE NamedModules(_, _, _)
RECURSIVE NamedChildren(_, _, _, _)
NamedModules(h, id, prefix) == << <<prefix, id>> >> \o NamedChildren(h, id, prefix, 1)

NamedChildren(h, id, prefix, k) ==
    IF k > Len(Modules(h[id])) THEN << >>
    ELSE LET key == Modules(h[id])[k][1]
             sub == Modules(h[id])[k][2]
             name == IF prefix = << >> THEN key ELSE prefix \o <<".">> \o key
         IN NamedModules(h, sub, name) \o NamedChildren(h, id, prefix, k + 1)

\* get_parent_model: the id of the first container found, depth first, that
\* holds module among its children; 0 is None.
RECURSIVE GetParentModel(_, _, _)
RECURSIVE GetParentFrom(_, _, _, _)
GetParentModel(h, parent_model, module) == GetParentFrom(h, parent_model, module, 1)

GetParentFrom(h, parent_model, module, k) ==
    IF k > Len(Modules(h[parent_model])) THEN 0
    ELSE LET sub_module == Modules(h[parent_model])[k][2]
         IN IF sub_module = module THEN parent_model
            ELSE LET parent == GetParentModel(h, sub_module, module)
                 IN IF parent # 0 THEN parent
                    ELSE GetParentFrom(h, parent_model, module, k + 1)

\* list(parent._modules.values()).index(module)
RECURSIVE IndexOf(_, _, _)
IndexOf(modules, module, k) ==
    IF modules[k][2] = module THEN k ELSE IndexOf(modules, module, k + 1)

\* setattr(parent, <the key module is held under>, lora_layer)
SetChild(h, parent, module, lora_layer) ==
    LET k == IndexOf(h[parent].modules, module, 1)
    IN [h EXCEPT ![parent].modules[k] = <<h[parent].modules[k][1], lora_layer>>]

\* Lines 141-150: the layer constructed for module, holding module's weight
\* (and weight scaler when quantized).  draw is what its constructor finds in
\* uninitialized storage and draws for weight_a.
WrapLinear(module, rank, lora_scaler, use_dora, draw) ==
    LET lora_layer == LinearWithLoRA_init(module.in_features, module.out_features, rank,
                                          lora_scaler, use_dora, module.quant,
                                          draw.w, draw.ws, draw.a, draw.as, draw.bs)
    IN [lora_layer EXCEPT !.weight = module.weight,
                          !.weight_scaler = IF module.quant THEN module.weight_scaler
                                            ELSE lora_layer.weight_scaler]

\* The body of the two loops for one module and one replace_name, lines 139-153.
\* st is [heap, raised, made]; made counts the layers constructed so far.
ReplaceOne(st, name, module, replace_name, rank, lora_scaler, use_dora, draws) ==
    IF st.raised THEN st
    ELSE IF ~(IsInstanceOfLinear(st.heap[module]) /\ IsSubstring(replace_name, name)) THEN st
    ELSE LET lora_layer == WrapLinear(st.heap[module], rank, lora_scaler, use_dora,
                                      draws[st.made + 1])
             parent == GetParentModel(st.heap, RootId, module)
             new == Len(st.heap) + 1
         IN IF parent = 0
            THEN [st EXCEPT !.raised = TRUE]
            ELSE [heap   |-> SetChild(Append(st.heap, lora_layer), parent, module, new),
                  raised |-> FALSE,
                  made   |-> st.made + 1]

RECURSIVE ForReplaceNames(_, _, _, _, _, _, _, _, _)
ForReplaceNames(st, name, module, replace_names, j, rank, lora_scaler, use_dora, draws) ==
    IF j > Len(replace_names) THEN st
    ELSE ForReplaceNames(
            ReplaceOne(st, name, module, replace_names[j], rank, lora_scaler, use_dora, draws),
            name, module, replace_names, j + 1, rank, lora_scaler, use_dora, draws)

RECURSIVE ForNamedModules(_, _, _, _, _, _, _, _)
ForNamedModules(st, named, i, replace_names, rank, lora_scaler, use_dora, draws) ==
    IF i > Len(named) THEN st
    ELSE ForNamedModules(
            ForReplaceNames(st, named[i][1], named[i][2], replace_names, 1,
                            rank, lora_scaler, use_dora, draws),
            named, i + 1, replace_names, rank, lora_scaler, use_dora, draws)

\* switch_to_lora(model, replace_names, rank, lora_scaler, use_dora); a
\* replace_names of None is ['qkv_proj'].
SwitchToLora(h, replace_names, rank, lora_scaler, use_dora, draws) ==
    LET names == IF replace_names = None THEN << qkv_proj >> ELSE replace_names
    IN ForNamedModules([heap |-> h, raised |-> FALSE, made |-> 0],
                       NamedModules(h, RootId, << >>), 1,
                       names, rank, lora_scaler, use_dora, draws)

\* How many layers a pass over h constructs at most: one for every module and
\* replace_name that pass the test of line 139.
Matches(h, replace_names) ==
    LET names == IF replace_names = None THEN << qkv_proj >> ELSE replace_names
        named == NamedModules(h, RootId, << >>)
    IN Cardinality({ <<i, j>> \in (1..Len(named)) \X (1..Len(names)) :
                        /\ IsInstanceOfLinear(h[named[i][2]])
                        /\ IsSubstring(names[j], named[i][1]) })

\* ------------------------------------------------------ the rewriting runs
\* The frozen weights of the host's base layers ([1, 2] matrices).
HostWeights == { <<Exact(<<1, 0>>)>>, <<Exact(<<1, 1>>)>> }

\* What a new layer's constructor finds in its weight storage, and draws for
\* weight_a (rank 1).
Draws ==
    { [w |-> <<Exact(<<0, 0>>)>>, ws |-> <<1>>, a |-> <<Exact(<<1, 0>>)>>, as |-> <<2>>, bs |-> <<2>>],
      [w |-> <<Exact(<<1, 0>>)>>, ws |-> <<1>>, a |-> <<Exact(<<0, 1>>)>>, as |-> <<2>>, bs |-> <<2>>] }

\* The lora_scaler switch_to_lora is called with: its default.
SwitchScale == 32

\* The replace_names lists switch_to_lora is called with (None: the default).
TargetLists ==
    { None,
      << o_proj >>,
      << <<"p", "r", "o", "j">> >>,
      << attn >>,
      << <<"q", "k", "v">>, <<"p", "r", "o", "j">> >> }

HostLinears ==
    { Linear_init(2, 1, quant, w, <<sc>>) :
         quant \in BOOLEAN, w \in HostWeights, sc \in ScalerVals }

\* The host models: two base layers under the root, or one of them under a
\* nested container.
Hosts ==
    { << Container(<< <<qkv_proj, 2>>, <<o_proj, 3>> >>), l1, l2 >> :
         l1 \in HostLinears, l2 \in HostLinears }
    \cup
    { << Container(<< <<attn, 2>>, <<o_proj, 4>> >>),
         Container(<< <<qkv_proj, 3>> >>), l1, l2 >> :
         l1 \in HostLinears, l2 \in HostLinears }

NoPass == [targets |-> None, raised |-> FALSE]

GraphInit ==
    /\ heap \in Hosts
    /\ last = NoPass
    /\ passes = 0
    /\ layer = << >>
    /\ ret = Returned("none", None, FALSE)
    /\ calls = 0

\* switch_to_lora(model, replace_names, rank=1, use_dora=use_dora)
Switch ==
    /\ passes < MaxPasses
    /\ \E replace_names \in TargetLists, use_dora \in BOOLEAN :
         \E draws \in [1..Matches(heap, replace_names) -> Draws] :
            LET done == SwitchToLora(heap, replace_names, 1, SwitchScale, use_dora, draws)
            IN /\ heap' = done.heap
               /\ last' = [targets |-> replace_names, raised |-> done.raised]
    /\ passes' = passes + 1
    /\ UNCHANGED layerVars

\* The ids of the modules of the model, root included.
Reachable(h) == { NamedModules(h, RootId, << >>)[k][2] :
                     k \in 1..Len(NamedModules(h, RootId, << >>)) }

\* What an optimizer update leaves in weight_b ([1, 1], the host layers' shape).
TrainedB == { <<Exact(<<1>>)>> }

\* An optimizer update of weight_b of one adapter layer of the model.
TrainModule ==
    /\ \E id \in Reachable(heap) :
         /\ heap[id].cls = "LinearWithLoRA"
         /\ \E b \in TrainedB :
               heap' = [heap EXCEPT ![id].weight_b = b]
    /\ UNCHANGED <<last, passes, layerVars>>

NextGraph == Switch \/ TrainModule

SpecGraph == GraphInit /\ [][NextGraph]_vars

\* ------------------------------------------------------------------ claims
SameBatch(o1, o2) ==
    /\ Len(o1) = Len(o2)
    /\ \A b \in 1..Len(o1) : SameOut(o1[b], o2[b])

X == Batch(layer.in_features)

HasFactors(self) == hasattr(self.weight_a) /\ hasattr(self.weight_b)

IsZeroMatrix(w) == \A i \in 1..Len(w) : \A j \in 1..Len(w[i].v) : w[i].v[j] = 0

NonZeroFactors(self) ==
    HasFactors(self) /\ ~IsZeroMatrix(self.weight_a) /\ ~IsZeroMatrix(self.weight_b)

\* While the adapter factors exist the frozen weight is an exact integer matrix
\* (only a DoRA merge, which deletes the factors, stores scaled rows), so the
\* sums of exact rows above are only ever taken of exact rows.
WeightExactWhileAdapted ==
    HasFactors(layer) => \A i \in 1..Len(layer.weight) : IsExact(layer.weight[i])

\* C1: the forward call made right after merge_lora returns what the forward
\* call made right before merge_lora returned, on a layer whose adapter factors
\* are non-zero.
C1_MergePreservesForward ==
    [][(CallMergeLora /\ ret.op = "forward" /\ NonZeroFactors(layer))
          => SameBatch(ForwardBatch(layer', X), ret.out)]_vars

\* C2: a merge_lora call completes, and afterwards weight_a, weight_b and their
\* scalers are gone and lora_rank is 0.
C2_MergePostcondition ==
    ret.op = "merge_lora" =>
        /\ ~ret.raised
        /\ ~hasattr(layer.weight_a) /\ ~hasattr(layer.weight_b)
        /\ ~hasattr(layer.weight_a_scaler) /\ ~hasattr(layer.weight_b_scaler)
        /\ layer.lora_rank = 0

\* The base layer's effective weight: weight, or weight * weight_scaler when
\* quantized.
EffectiveBase(self) ==
    [i \in 1..Len(self.weight) |->
        IF self.quant THEN ScaleRow(self.weight[i], self.weight_scaler[i])
        ELSE self.weight[i]]

Projection(x, w) == [b \in 1..Len(x) |-> Linear_F(x[b], w)]

\* C3: forward of a freshly constructed layer equals the projection by the base
\* layer's effective weight alone, for every quantization / DoRA combination.
C3_NoOpAtInit ==
    calls = 0 =>
        SameBatch(ForwardBatch(layer, X), Projection(X, EffectiveBase(layer)))

ZeroNumerator(self, i) ==
    LET lw == MatMul(QuantizeWeight(self, self.weight_b, self.weight_b_scaler),
                     QuantizeWeight(self, self.weight_a, self.weight_a_scaler))
    IN \A j \in 1..self.in_features :
          self.lora_scaler.q * self.weight[i].v[j]
             + self.lora_scaler.p * lw[i].v[j] = 0

C7_ForwardReadOnly ==
    [][CallForward
          => /\ layer' = layer
             /\ SameBatch(ForwardBatch(layer', X), ret'.out)]_vars

\* The weight the claim says one forward call projects x by.
ClaimedWeight(self) ==
    LET W_eff == EffectiveBase(self)
        A_eff == [k \in 1..Len(self.weight_a) |->
                    IF self.quant THEN ScaleRow(self.weight_a[k], self.weight_a_scaler[k])
                    ELSE self.weight_a[k]]
        B_eff == [i \in 1..Len(self.weight_b) |->
                    IF self.quant THEN ScaleRow(self.weight_b[i], self.weight_b_scaler[i])
                    ELSE self.weight_b[i]]
        BA    == MatMul(B_eff, A_eff)
        p     == self.lora_scaler.p
        q     == self.lora_scaler.q
        \* q * (W_eff + (p/q) * BA), which has the direction of W_eff + scaler * BA
        n(i)  == [j \in 1..self.in_features |-> q * W_eff[i].v[j] + p * BA[i].v[j]]
    IN IF ~HasFactors(self) THEN W_eff
       ELSE IF ~self.dora
       THEN [i \in 1..Len(W_eff) |->
               Exact([j \in 1..self.in_features |-> W_eff[i].v[j] + BA[i].v[j]])]
       ELSE [i \in 1..Len(W_eff) |->
               IF Norm2(n(i)) = 0 THEN NaNRow(n(i))
               ELSE [v |-> n(i), num |-> self.m[i], den |-> Norm2(n(i))]]

\* C9: one forward call returns x projected by W_eff + B_eff @ A_eff (lora_scaler
\* not applied) when the factors exist and DoRA is off, by
\* m * rownormalize(W_eff + lora_scaler * B_eff @ A_eff) when they exist and DoRA
\* is on, and by W_eff alone when they do not exist.
C9_ForwardComposition ==
    [][CallForward => SameBatch(ret'.out, Projection(X, ClaimedWeight(layer)))]_vars

\* forward has returned on an un-merged layer with DoRA off, a non-zero adapter
\* product and lora_scaler other than 1.
C9_Witness ==
    /\ ret.op = "forward" /\ HasFactors(layer) /\ ~layer.dora
    /\ ~IsZeroMatrix(LoraWeight(layer))
    /\ layer.lora_scaler.p # layer.lora_scaler.q

\* C10: lora_rank is 0 exactly when the adapter factors are absent.
C10_RankSentinel ==
    (layer.lora_rank = 0) <=> (~hasattr(layer.weight_a) /\ ~hasattr(layer.weight_b))

\* The model: the names and identities of its modules, and every module's fields.
SameGraph(h1, h2) ==
    /\ NamedModules(h1, RootId, << >>) = NamedModules(h2, RootId, << >>)
    /\ \A id \in Reachable(h1) : h1[id] = h2[id]

\* C4: a pass run again with the same replace_names, after a pass that
\* completed, leaves the model as it was: the same modules under the same names,
\* with the same fields.
C4_IdempotentRewrite ==
    [][(Switch /\ passes >= 1 /\ ~last.raised /\ last'.targets = last.targets)
          => SameGraph(heap', heap)]_vars

\* C5: a pass with a list of replace_names completes, and every plain Linear
\* whose qualified name contains one of them is afterwards, under the same name,
\* a new LinearWithLoRA of the same shape and quantization flag holding the same
\* weight and weight scaler.
C5_CompleteSubstitution ==
    [][(Switch /\ last'.targets # None)
          => /\ ~last'.raised
             /\ LET named == NamedModules(heap, RootId, << >>)
                    after == NamedModules(heap', RootId, << >>)
                IN /\ Len(after) = Len(named)
                   /\ \A k \in 1..Len(named) :
                        (/\ heap[named[k][2]].cls = "Linear"
                         /\ \E j \in 1..Len(last'.targets) :
                               IsSubstring(last'.targets[j], named[k][1]))
                        => LET old == heap[named[k][2]]
                               new == heap'[after[k][2]]
                           IN /\ after[k][1] = named[k][1]
                              /\ after[k][2] \notin DOMAIN heap
                              /\ new.cls = "LinearWithLoRA"
                              /\ new.in_features = old.in_features
                              /\ new.out_features = old.out_features
                              /\ new.quant = old.quant
                              /\ new.weight = old.weight
                              /\ new.weight_scaler = old.weight_scaler]_vars

\* C8: every un-merged LinearWithLoRA of the model holds in m one entry per
\* output row, the L2 norm of that row of its weight.
C8_MagnitudeMatchesWeight ==
    \A id \in Reachable(heap) :
        (heap[id].cls = "LinearWithLoRA" /\ heap[id].lora_rank > 0)
        => /\ Len(heap[id].m) = heap[id].out_features
           /\ \A i \in 1..heap[id].out_features :
                 RowNorm2Is(heap[id].weight[i], heap[id].m[i])

====
